---- MODULE Spec2Model ----
(***************************************************************************)
(* Model of the image-search repository: the resumable batch embedding     *)
(* pipeline with its index merge (process.py) and the interactive          *)
(* similarity search (search.py).                                          *)
(*                                                                         *)
(* The features directory is modelled as a map from batch index to the     *)
(* feature artifact (NNNNNNNNNN.npy) and to the identifier artifact        *)
(* (NNNNNNNNNN.csv), plus the two consolidated artifacts features.npy and  *)
(* photo_ids.csv.  A file is a record [st, rows]: st = "none" (no such     *)
(* file), "partial" (the file exists but its write was cut short, loading  *)
(* it raises) or "ok" (rows holds its content).                            *)
(***************************************************************************)
EXTENDS Integers, Sequences, FiniteSets, TLC

\* ---------------------------------------------------------------- bounds
MaxFiles == 3
MaxBatchSize == 2
MaxRuns == 2
MaxCorpus == 3
MaxDisplay == 3
MaxPatterns == 2

VARIABLES
    photos_dir,      \* the image files in photos_path, in directory order
    ext_list,        \* utils.py:14    configuration value: glob patterns
    photos_files,    \* process.py:9   the enumerated file list
    batch_size,      \* utils.py:13    configuration value
    npy,             \* features dir: batch index -> feature artifact
    csv,             \* features dir: batch index -> identifier artifact
    features_npy,    \* features dir: features.npy
    photo_ids_csv,   \* features dir: photo_ids.csv
    pc,              \* position of the pipeline process
    i,               \* process.py:16  loop variable
    batch_features,  \* process.py:26  local of the try block
    run,             \* number of pipeline runs started so far
    \* ---- observation (history) variables of the current run
    existed,         \* batches whose feature artifact existed when reached
    encoded,         \* batches for which compute_image_features was called
    wrote,           \* batches for which np.save / to_csv touched the disk
    skipped,         \* batches the run skipped (line 22 false)
    failed,          \* batches that ended in the except clause
    succeeded,       \* batches whose try block ran to its end
    everSucceeded,   \* batches whose try block ran to its end in any run
    prevFailed,      \* "failed" of the previous run
    prevAllOk,       \* previous run: every batch succeeded, run reached "done"
    snapNpy,         \* npy at the start of the current run
    snapCsv,         \* csv at the start of the current run
    corruptAtMerge,  \* merge started over an unpaired batch artifact
    mergeWrote,      \* the current merge wrote a consolidated artifact
    inflight,        \* batch in flight at the abort that ended this or the
                     \* previous run, or -1
    \* ---- search.py
    display_num,     \* utils.py:15   configuration value
    photo_features,  \* search.py:7   the loaded feature matrix
    photo_ids,       \* search.py:9   the loaded identifier list
    search_query,    \* search.py:13  the line read last (0: the empty line)
    best_photos,     \* search.py:17  ranking of the query answered last
    printed,         \* identifiers printed for the query answered last
    spc              \* position of the search process: "start", "prompt",
                     \* "exited", or the uncaught exception that ended it

vars == <<photos_dir, ext_list, photos_files, batch_size, npy, csv, features_npy, photo_ids_csv, pc, i,
          batch_features, run, existed, encoded, wrote, skipped, failed, succeeded,
          everSucceeded, prevFailed, prevAllOk, snapNpy, snapCsv, corruptAtMerge,
          mergeWrote, inflight, display_num, photo_features, photo_ids,
          search_query, best_photos, printed, spc>>

pipelineVars == <<photos_dir, ext_list, photos_files, batch_size, npy, csv, pc, i, batch_features, run,
                  existed, encoded, wrote, skipped, failed, succeeded, everSucceeded,
                  prevFailed, prevAllOk, snapNpy, snapCsv, corruptAtMerge, mergeWrote,
                  inflight>>

searchVars == <<display_num, photo_features, photo_ids, search_query, best_photos,
                printed, spc>>

\* ------------------------------------------------------------ file model
NoFile == [st |-> "none", rows |-> <<>>]
Partial == [st |-> "partial", rows |-> <<>>]
Saved(rows) == [st |-> "ok", rows |-> rows]

\* Path.exists(): true for any file that is there, whole or cut short.
Exists(file) == file.st # "none"

\* Batch indices that can ever name an artifact within the bounds.
BatchIdx == 0 .. (MaxFiles - 1)

\* ------------------------------------------------------- pure functions
\* compute_image_features: one vector per photo, in input order.  The vector
\* of a photo is opaque; the model keeps the photo it was computed from.
encode_image(photo) == [vec_of |-> photo]

compute_image_features(photos_batch) ==
    [k \in 1 .. Len(photos_batch) |-> encode_image(photos_batch[k])]

\* str(photo_file.resolve()): the identifier of a photo.
resolve(photo) == [path_of |-> photo]

\* The glob patterns an ext_list may hold.
Patterns == {"*.jpg", "*.png", "*.*"}

\* The extension of a photo of the directory: odd ones are .jpg, even ones .png.
Ext(photo) == IF photo % 2 = 1 THEN "jpg" ELSE "png"

\* Whether Path.glob(pattern) yields the photo.
Matches(pattern, photo) ==
    \/ pattern = "*.*"
    \/ pattern = "*.jpg" /\ Ext(photo) = "jpg"
    \/ pattern = "*.png" /\ Ext(photo) = "png"

\* photos_path.glob(e) over the directory dir
Glob(dir, pattern) == SelectSeq(dir, LAMBDA photo : Matches(pattern, photo))

RECURSIVE EnumerateFrom(_, _, _)
EnumerateFrom(dir, exts, k) ==
    IF k > Len(exts) THEN <<>>
    ELSE Glob(dir, exts[k]) \o EnumerateFrom(dir, exts, k + 1)

\* process.py:9  [item for e in ext_list for item in photos_path.glob(e)]:
\* the matches of each pattern in turn, one after the other.
Enumerate(dir, exts) == EnumerateFrom(dir, exts, 1)

\* math.ceil(len(photos_files) / batch_size)
Ceil(n, b) == IF n % b = 0 THEN n \div b ELSE (n \div b) + 1

batches == Ceil(Len(photos_files), batch_size)

Min(a, b) == IF a < b THEN a ELSE b

\* Python slice s[lo:hi] for 0 <= lo <= hi (0-based, clamped at len(s)).
Slice(s, lo, hi) == SubSeq(s, Min(lo, Len(s)) + 1, Min(hi, Len(s)))

\* photos_files[i*batch_size : (i+1)*batch_size]
batch_files(b) == Slice(photos_files, b * batch_size, (b + 1) * batch_size)

RECURSIVE Flatten(_)
\* np.concatenate / pd.concat of a list of row sequences
Flatten(list) ==
    IF list = <<>> THEN <<>> ELSE Head(list) \o Flatten(Tail(list))

RECURSIVE BatchFilesFrom(_, _)
\* The batch artifacts of one kind that exist, in ascending index order:
\* what sorted(glob(...)) yields for the zero-padded ten-digit names.
BatchFilesFrom(dir, b) ==
    IF b > MaxFiles - 1 THEN <<>>
    ELSE (IF Exists(dir[b]) THEN <<dir[b]>> ELSE <<>>) \o BatchFilesFrom(dir, b + 1)

\* sorted(features_path.glob("*.npy")): the pattern also matches features.npy,
\* which sorts after every digit-named batch file.
GlobNpy ==
    BatchFilesFrom(npy, 0) \o (IF Exists(features_npy) THEN <<features_npy>> ELSE <<>>)

\* sorted(features_path.glob("*.csv")): also matches photo_ids.csv.
GlobCsv ==
    BatchFilesFrom(csv, 0) \o (IF Exists(photo_ids_csv) THEN <<photo_ids_csv>> ELSE <<>>)

\* np.load / pd.read_csv raise on a file that was cut short.
AllLoadable(files) == \A k \in 1 .. Len(files) : files[k].st = "ok"

RowsOf(files) == [k \in 1 .. Len(files) |-> files[k].rows]

\* Mutation of ShouldProcess: the existence check looks at the identifier
\* artifact instead of the feature artifact.
ShouldProcessOnIds(b) == ~Exists(csv[b])

\* process.py:22  `if not batch_features_path.exists()`
ShouldProcess(b) == ~Exists(npy[b])

\* ------------------------------------------------------------------ Init
FileLists == { [k \in 1 .. n |-> k] : n \in 0 .. MaxFiles }

\* No pipeline run has started; the features directory holds no batch artifact.
PipelineIdle ==
    /\ npy = [b \in BatchIdx |-> NoFile]
    /\ csv = [b \in BatchIdx |-> NoFile]
    /\ pc = "idle"
    /\ i = 0
    /\ batch_features = <<>>
    /\ run = 0
    /\ existed = {}
    /\ encoded = {}
    /\ wrote = {}
    /\ skipped = {}
    /\ failed = {}
    /\ succeeded = {}
    /\ everSucceeded = {}
    /\ prevFailed = {}
    /\ prevAllOk = FALSE
    /\ snapNpy = [b \in BatchIdx |-> NoFile]
    /\ snapCsv = [b \in BatchIdx |-> NoFile]
    /\ corruptAtMerge = FALSE
    /\ mergeWrote = FALSE
    /\ inflight = -1

\* No search session has started.
SearchOff ==
    /\ display_num = 1
    /\ photo_features = <<>>
    /\ photo_ids = <<>>
    /\ search_query = 0
    /\ best_photos = <<>>
    /\ printed = <<>>
    /\ spc = "off"

Init ==
    /\ photos_dir \in FileLists
    /\ ext_list = <<"*.*">>
    /\ photos_files = Enumerate(photos_dir, ext_list)
    /\ batch_size \in 1 .. MaxBatchSize
    /\ features_npy = NoFile
    /\ photo_ids_csv = NoFile
    /\ PipelineIdle
    /\ SearchOff

config == <<photos_dir, ext_list, photos_files, batch_size>>
disk == <<npy, csv, features_npy, photo_ids_csv>>
runHist == <<prevFailed, prevAllOk, snapNpy, snapCsv, inflight>>
mergeHist == <<corruptAtMerge, mergeWrote>>

\* --------------------------------------------------------------- actions
\* Start of a run of process.py (lines 9-16): the first one, or a re-run after
\* the previous process ended (normally, by an uncaught exception, or aborted).
StartRun ==
    /\ UNCHANGED searchVars
    /\ pc \in {"idle", "done", "crashed", "aborted"}
    /\ run < MaxRuns
    /\ run' = run + 1
    /\ photos_files' = Enumerate(photos_dir, ext_list)
    /\ pc' = "loop"
    /\ i' = 0
    /\ batch_features' = <<>>
    /\ prevFailed' = failed
    /\ prevAllOk' = (pc = "done" /\ succeeded = 0 .. (batches - 1))
    /\ snapNpy' = npy
    /\ snapCsv' = csv
    /\ existed' = {}
    /\ encoded' = {}
    /\ wrote' = {}
    /\ skipped' = {}
    /\ failed' = {}
    /\ succeeded' = {}
    /\ corruptAtMerge' = FALSE
    /\ mergeWrote' = FALSE
    /\ inflight' = IF pc = "aborted" THEN inflight ELSE -1
    /\ UNCHANGED <<photos_dir, ext_list, batch_size, disk, everSucceeded>>

\* The except clause (lines 32-33): report, go on with the next batch.
ExceptBatch ==
    /\ failed' = failed \cup {i}
    /\ i' = i + 1
    /\ pc' = "loop"
    /\ batch_features' = <<>>

\* Lines 17-22 with the feature artifact present: the batch is skipped.
SkipBatch ==
    /\ UNCHANGED searchVars
    /\ pc = "loop"
    /\ i < batches
    /\ ~ShouldProcess(i)
    /\ existed' = IF Exists(npy[i]) THEN existed \cup {i} ELSE existed
    /\ skipped' = skipped \cup {i}
    /\ i' = i + 1
    /\ UNCHANGED <<config, disk, pc, batch_features, run, encoded, wrote, failed,
                   succeeded, everSucceeded, runHist, mergeHist>>

\* Lines 22-26: the batch is entered and compute_image_features is called; it
\* returns the features or raises (undecodable image, encoder failure).
ComputeFeatures ==
    /\ UNCHANGED searchVars
    /\ pc = "loop"
    /\ i < batches
    /\ ShouldProcess(i)
    /\ existed' = IF Exists(npy[i]) THEN existed \cup {i} ELSE existed
    /\ encoded' = encoded \cup {i}
    /\ \/ /\ batch_features' = compute_image_features(batch_files(i))
          /\ pc' = "save"
          /\ UNCHANGED <<i, failed>>
       \/ ExceptBatch
    /\ UNCHANGED <<config, disk, run, wrote, skipped, succeeded, everSucceeded,
                   runHist, mergeHist>>

\* Line 27: np.save(batch_features_path, batch_features).  It writes the whole
\* file, or raises having created no file or a file cut short.
SaveBatchFeatures ==
    /\ UNCHANGED searchVars
    /\ pc = "save"
    /\ wrote' = wrote \cup {i}
    /\ \/ /\ npy' = [npy EXCEPT ![i] = Saved(batch_features)]
          /\ pc' = "csv"
          /\ UNCHANGED <<i, failed, batch_features>>
       \/ /\ \E left \in {NoFile, Partial} : npy' = [npy EXCEPT ![i] = left]
          /\ ExceptBatch
    /\ UNCHANGED <<config, csv, features_npy, photo_ids_csv, run, existed, encoded,
                   skipped, succeeded, everSucceeded, runHist, mergeHist>>

\* Lines 29-31: the identifiers of the batch are written with to_csv, which
\* writes the whole file, or raises having created no file or a file cut short.
SaveBatchIds ==
    /\ UNCHANGED searchVars
    /\ pc = "csv"
    /\ wrote' = wrote \cup {i}
    /\ \/ /\ csv' = [csv EXCEPT ![i] =
                       Saved([k \in 1 .. Len(batch_files(i)) |-> resolve(batch_files(i)[k])])]
          /\ succeeded' = succeeded \cup {i}
          /\ everSucceeded' = everSucceeded \cup {i}
          /\ i' = i + 1
          /\ pc' = "loop"
          /\ batch_features' = <<>>
          /\ UNCHANGED failed
       \/ /\ \E left \in {NoFile, Partial} : csv' = [csv EXCEPT ![i] = left]
          /\ ExceptBatch
          /\ UNCHANGED <<succeeded, everSucceeded>>
    /\ UNCHANGED <<config, npy, features_npy, photo_ids_csv, run, existed, encoded,
                   skipped, runHist, mergeHist>>

\* A batch index has one artifact without the other, or the two differ in length.
Unpaired(b) ==
    \/ Exists(npy[b]) # Exists(csv[b])
    \/ npy[b].st # csv[b].st
    \/ Len(npy[b].rows) # Len(csv[b].rows)

\* Lines 37-41: load every *.npy, concatenate, save features.npy.  np.load
\* raises on a file cut short and np.concatenate raises on an empty list; both
\* are uncaught and end the process.
MergeFeatures ==
    /\ UNCHANGED searchVars
    /\ pc = "loop"
    /\ i = batches
    /\ corruptAtMerge' = (\E b \in BatchIdx : Unpaired(b))
    /\ IF AllLoadable(GlobNpy) /\ GlobNpy # <<>>
         THEN /\ features_npy' = Saved(Flatten(RowsOf(GlobNpy)))
              /\ mergeWrote' = TRUE
              /\ pc' = "merge_ids"
         ELSE /\ pc' = "crashed"
              /\ UNCHANGED <<features_npy, mergeWrote>>
    /\ UNCHANGED <<config, npy, csv, photo_ids_csv, i, batch_features, run, existed,
                   encoded, wrote, skipped, failed, succeeded, everSucceeded, runHist>>

\* Lines 44-45: load every *.csv, concatenate, save photo_ids.csv.  read_csv
\* raises on a file cut short and pd.concat raises on an empty list.
MergeIds ==
    /\ UNCHANGED searchVars
    /\ pc = "merge_ids"
    /\ IF AllLoadable(GlobCsv) /\ GlobCsv # <<>>
         THEN /\ photo_ids_csv' = Saved(Flatten(RowsOf(GlobCsv)))
              /\ pc' = "done"
         ELSE /\ pc' = "crashed"
              /\ UNCHANGED photo_ids_csv
    /\ UNCHANGED <<config, npy, csv, features_npy, i, batch_features, run, existed,
                   encoded, wrote, skipped, failed, succeeded, everSucceeded, runHist,
                   mergeHist>>

\* The process is killed while it runs: before the statement at pc, or while
\* that statement is writing, which leaves the file being written cut short.
Abort ==
    /\ UNCHANGED searchVars
    /\ pc \in {"loop", "save", "csv", "merge_ids"}
    /\ pc' = "aborted"
    /\ inflight' = IF pc \in {"save", "csv"} THEN i ELSE -1
    /\ \/ UNCHANGED disk
       \/ /\ pc = "save"
          /\ npy' = [npy EXCEPT ![i] = Partial]
          /\ UNCHANGED <<csv, features_npy, photo_ids_csv>>
       \/ /\ pc = "csv"
          /\ csv' = [csv EXCEPT ![i] = Partial]
          /\ UNCHANGED <<npy, features_npy, photo_ids_csv>>
       \/ /\ pc = "loop" /\ i = batches
          /\ AllLoadable(GlobNpy) /\ GlobNpy # <<>>
          /\ features_npy' = Partial
          /\ UNCHANGED <<npy, csv, photo_ids_csv>>
       \/ /\ pc = "merge_ids"
          /\ AllLoadable(GlobCsv) /\ GlobCsv # <<>>
          /\ photo_ids_csv' = Partial
          /\ UNCHANGED <<npy, csv, features_npy>>
    /\ UNCHANGED <<config, i, batch_features, run, existed, encoded, wrote, skipped,
                   failed, succeeded, everSucceeded, prevFailed, prevAllOk, snapNpy,
                   snapCsv, mergeHist>>

Next ==
    \/ StartRun
    \/ SkipBatch
    \/ ComputeFeatures
    \/ SaveBatchFeatures
    \/ SaveBatchIds
    \/ MergeFeatures
    \/ MergeIds
    \/ Abort

Spec == Init /\ [][Next]_vars

\* ------------------------------------- pipeline over a changing directory
\* The ext_lists of at most MaxPatterns patterns.
ExtLists == UNION { [1 .. n -> Patterns] : n \in 1 .. MaxPatterns }

\* As Init, with any ext_list; the enumeration stays within MaxFiles entries.
DirInit ==
    /\ photos_dir \in FileLists
    /\ ext_list \in ExtLists
    /\ Len(Enumerate(photos_dir, ext_list)) <= MaxFiles
    /\ photos_files = Enumerate(photos_dir, ext_list)
    /\ batch_size \in 1 .. MaxBatchSize
    /\ features_npy = NoFile
    /\ photo_ids_csv = NoFile
    /\ PipelineIdle
    /\ SearchOff

\* Between two runs a new image file appears in photos_path, after the ones
\* already there.  photos_files is recomputed by the next run (line 9).
AddPhoto ==
    /\ pc \in {"done", "crashed", "aborted"}
    /\ run < MaxRuns
    /\ Len(Enumerate(Append(photos_dir, Len(photos_dir) + 1), ext_list)) <= MaxFiles
    /\ photos_dir' = Append(photos_dir, Len(photos_dir) + 1)
    /\ UNCHANGED <<ext_list, photos_files, batch_size, disk, pc, i, batch_features,
                   run, existed, encoded, wrote, skipped, failed, succeeded,
                   everSucceeded, runHist, mergeHist, searchVars>>

DirNext ==
    \/ StartRun
    \/ SkipBatch
    \/ ComputeFeatures
    \/ SaveBatchFeatures
    \/ SaveBatchIds
    \/ MergeFeatures
    \/ MergeIds
    \/ Abort
    \/ AddPhoto

DirSpec == DirInit /\ [][DirNext]_vars

\* ============================================================= search.py
\* The embedding space is modelled by three integer vectors (ten times the
\* vectors [1,0], [0,1] and [0.7,0.7]); dot products stay exact.
Vectors == { <<10, 0>>, <<0, 10>>, <<7, 7>> }

\* The non-empty query lines a user may type; 0 stands for the empty line.
Queries == 1 .. 3

\* compute_text_feature (utils.py:24-28): the encoder is an opaque function
\* from the text of the query to its vector.
compute_text_feature(text) ==
    CASE text = 1 -> <<10, 0>>
      [] text = 2 -> <<0, 10>>
      [] OTHER -> <<7, 7>>

\* One entry of text_features @ photo_features.T
Dot(u, v) == u[1] * v[1] + u[2] * v[2]

\* search.py:16  list((text_features @ photo_features.T).squeeze(0))
Similarities(text_features, matrix) ==
    [r \in 1 .. Len(matrix) |-> Dot(text_features, matrix[r])]

\* zip(similarities, range(photo_features.shape[0])): row indices count from 0.
ZipWithIndex(similarities) ==
    [r \in 1 .. Len(similarities) |-> <<similarities[r], r - 1>>]

RECURSIVE InsertDesc(_, _)
\* x is placed before the first element whose key is smaller than its own, so
\* after every element with an equal key.
InsertDesc(sorted, x) ==
    IF sorted = <<>> THEN <<x>>
    ELSE IF Head(sorted)[1] < x[1] THEN <<x>> \o sorted
    ELSE <<Head(sorted)>> \o InsertDesc(Tail(sorted), x)

RECURSIVE InsertAsc(_, _)
InsertAsc(sorted, x) ==
    IF sorted = <<>> THEN <<x>>
    ELSE IF Head(sorted)[1] > x[1] THEN <<x>> \o sorted
    ELSE <<Head(sorted)>> \o InsertAsc(Tail(sorted), x)

RECURSIVE SortDescFrom(_, _, _)
SortDescFrom(pairs, k, acc) ==
    IF k > Len(pairs) THEN acc ELSE SortDescFrom(pairs, k + 1, InsertDesc(acc, pairs[k]))

RECURSIVE SortAscFrom(_, _, _)
SortAscFrom(pairs, k, acc) ==
    IF k > Len(pairs) THEN acc ELSE SortAscFrom(pairs, k + 1, InsertAsc(acc, pairs[k]))

RECURSIVE InsertDescPair(_, _)
\* Descending order on the whole pair (similarity, row index).
InsertDescPair(sorted, x) ==
    IF sorted = <<>> THEN <<x>>
    ELSE IF \/ Head(sorted)[1] < x[1]
            \/ (Head(sorted)[1] = x[1] /\ Head(sorted)[2] < x[2])
         THEN <<x>> \o sorted
    ELSE <<Head(sorted)>> \o InsertDescPair(Tail(sorted), x)

RECURSIVE SortDescPairFrom(_, _, _)
SortDescPairFrom(pairs, k, acc) ==
    IF k > Len(pairs) THEN acc
    ELSE SortDescPairFrom(pairs, k + 1, InsertDescPair(acc, pairs[k]))

\* Mutation of Ranking: key=lambda x: x[0] is dropped, so the pairs themselves
\* are compared and equal similarities come out by descending row index.
RankingByPair(similarities) == SortDescPairFrom(ZipWithIndex(similarities), 1, <<>>)

\* Mutation of Ranking: reverse=True is dropped, the sort is ascending.
RankingAscending(similarities) == SortAscFrom(ZipWithIndex(similarities), 1, <<>>)

\* search.py:17  sorted(zip(...), key=lambda x: x[0], reverse=True): Python's
\* sort is stable, also with reverse=True.
Ranking(similarities) == SortDescFrom(ZipWithIndex(similarities), 1, <<>>)

RECURSIVE PrintLoop(_, _, _, _)
\* search.py:19-22: for i in range(display_num): print(photo_ids[best_photos[i][1]]).
\* Either subscript raises IndexError when it is out of range; what was printed
\* before stays printed.  The result is [out, raised].
PrintLoop(ranking, ids, k, out) ==
    IF k >= display_num THEN [out |-> out, raised |-> FALSE]
    ELSE IF k >= Len(ranking) THEN [out |-> out, raised |-> TRUE]
    ELSE IF ranking[k + 1][2] >= Len(ids) THEN [out |-> out, raised |-> TRUE]
    ELSE PrintLoop(ranking, ids, k + 1, Append(out, ids[ranking[k + 1][2] + 1]))

\* The identifier lists a photo_ids.csv may hold: the rows are named 1, 2, ...
IdLists == { [r \in 1 .. m |-> resolve(r)] : m \in 0 .. MaxCorpus }

\* The feature matrices a features.npy may hold.
Matrices == UNION { [1 .. n -> Vectors] : n \in 0 .. MaxCorpus }

\* A search session is about to start over a features directory that holds
\* some consolidated index, or lacks one of its two artifacts.
SearchInit ==
    /\ photos_dir = <<>>
    /\ ext_list = <<"*.*">>
    /\ photos_files = <<>>
    /\ batch_size = 1
    /\ PipelineIdle
    /\ features_npy \in {NoFile} \cup { Saved(m) : m \in Matrices }
    /\ photo_ids_csv \in {NoFile} \cup { Saved(l) : l \in IdLists }
    /\ display_num \in 1 .. MaxDisplay
    /\ photo_features = <<>>
    /\ photo_ids = <<>>
    /\ search_query = 0
    /\ best_photos = <<>>
    /\ printed = <<>>
    /\ spc = "start"

\* search.py:7-11: np.load and pd.read_csv raise when the file is missing; the
\* exception is uncaught.  Otherwise the first prompt follows.
LoadIndex ==
    /\ spc = "start"
    /\ IF features_npy.st = "ok" /\ photo_ids_csv.st = "ok"
         THEN /\ photo_features' = features_npy.rows
              /\ photo_ids' = photo_ids_csv.rows
              /\ spc' = "prompt"
         ELSE /\ spc' = "load_error"
              /\ UNCHANGED <<photo_features, photo_ids>>
    /\ UNCHANGED <<pipelineVars, features_npy, photo_ids_csv, display_num,
                   search_query, best_photos, printed>>

\* What input() may return: the empty line or a query.
Lines == {0} \cup Queries

\* Mutation of LoopContinues: the loop goes on only for the first query text.
LoopContinuesOnce(line) == line = 1

\* search.py:14  `while search_query:` -- the empty string is false.
LoopContinues(line) == line # 0

\* search.py:13/24 and 14: input() returns a line for which the loop test is
\* false; the loop ends and with it the process.
EmptyLine ==
    /\ spc = "prompt"
    /\ \E line \in Lines :
          /\ ~LoopContinues(line)
          /\ search_query' = line
    /\ spc' = "exited"
    /\ UNCHANGED <<pipelineVars, features_npy, photo_ids_csv, display_num,
                   photo_features, photo_ids, best_photos, printed>>

\* Mutation of AnswerQuery: the loaded identifier list is reordered in place
\* into ranking order while the results are printed.
AnswerQueryInPlace ==
    /\ spc = "prompt"
    /\ \E text \in Queries :
          /\ search_query' = text
          /\ LET ranking == Ranking(Similarities(compute_text_feature(text), photo_features))
                 shown == PrintLoop(ranking, photo_ids, 0, <<>>)
             IN  /\ best_photos' = ranking
                 /\ printed' = shown.out
                 /\ spc' = IF shown.raised THEN "index_error" ELSE "prompt"
                 /\ photo_ids' = IF Len(photo_ids) = Len(ranking)
                                   THEN [k \in 1 .. Len(ranking) |-> photo_ids[ranking[k][2] + 1]]
                                   ELSE photo_ids
    /\ UNCHANGED <<pipelineVars, features_npy, photo_ids_csv, display_num,
                   photo_features>>

\* search.py:13/24 and 14-24: input() returns a line for which the loop test is
\* true and the loop body runs: the query is encoded (the encoder may raise),
\* every row is scored, the rows are ranked and display_num identifiers are
\* printed.  No exception is caught in search.py.
AnswerQuery ==
    /\ spc = "prompt"
    /\ \E text \in Lines :
          /\ LoopContinues(text)
          /\ search_query' = text
          /\ \/ LET ranking == Ranking(Similarities(compute_text_feature(text), photo_features))
                    shown == PrintLoop(ranking, photo_ids, 0, <<>>)
                IN  /\ best_photos' = ranking
                    /\ printed' = shown.out
                    /\ spc' = IF shown.raised THEN "index_error" ELSE "prompt"
             \/ /\ spc' = "encoder_error"
                /\ printed' = <<>>
                /\ UNCHANGED best_photos
    /\ UNCHANGED <<pipelineVars, features_npy, photo_ids_csv, display_num,
                   photo_features, photo_ids>>

SearchNext ==
    \/ LoadIndex
    \/ EmptyLine
    \/ AnswerQuery

SearchSpec == SearchInit /\ [][SearchNext]_vars

\* ================================================================ claims
\* Row r of the feature matrix was computed from the photo named at position r.
Aligned(matrix, ids) ==
    /\ Len(matrix) = Len(ids)
    /\ \A r \in 1 .. Len(matrix) : matrix[r].vec_of = ids[r].path_of

\* The batch loop of the current run is over (the merge is next, running or ended).
LoopOver ==
    \/ pc \in {"merge_ids", "done", "crashed"}
    \/ pc = "loop" /\ i = batches

AllBatches == 0 .. (batches - 1)

\* C1: after every merge the pipeline completes, the consolidated feature matrix
\* and the consolidated identifier sequence have the same length and row r was
\* computed from the file whose identifier is at position r.
C1_Alignment ==
    pc = "done" =>
        /\ features_npy.st = "ok"
        /\ photo_ids_csv.st = "ok"
        /\ Aligned(features_npy.rows, photo_ids_csv.rows)

\* C2: once the processing of a batch has ended (normally or through the caught
\* failure), the features directory holds both artifacts of the batch or neither.
C2_AllOrNothing ==
    \A b \in failed \cup succeeded : Exists(npy[b]) = Exists(csv[b])

\* C3: a run neither calls the encoder for, nor writes an artifact of, a batch
\* whose feature artifact exists when the run reaches it; and a run that follows
\* a run in which every batch succeeded skips every batch and leaves every
\* batch artifact as it was.
C3_Idempotent ==
    /\ \A b \in existed :
          /\ b \notin encoded
          /\ b \notin wrote
          /\ npy[b] = snapNpy[b]
          /\ csv[b] = snapCsv[b]
    /\ (prevAllOk /\ LoopOver) =>
          /\ skipped = AllBatches
          /\ encoded = {}
          /\ npy = snapNpy
          /\ csv = snapCsv

\* A second run has ended after a first run in which at least two batches, all
\* of them, succeeded; the second run skipped them all.
C3_Witness ==
    /\ run = 2
    /\ prevAllOk
    /\ pc = "done"
    /\ batches >= 2
    /\ skipped = AllBatches
    /\ existed = AllBatches

\* C4: after every pipeline completion the consolidated feature matrix is the
\* concatenation of exactly the per-batch feature artifacts in ascending batch
\* order, and the consolidated identifier sequence that of the per-batch
\* identifier artifacts, with nothing else included and no row duplicated.
C4_PureFunctionOfBatches ==
    pc = "done" =>
        /\ features_npy = Saved(Flatten(RowsOf(BatchFilesFrom(npy, 0))))
        /\ photo_ids_csv = Saved(Flatten(RowsOf(BatchFilesFrom(csv, 0))))

\* C5: a merge that starts over a batch index with one artifact but not the
\* other (or with artifacts of different lengths) fails and writes no
\* consolidated artifact.
C5_CorruptBatchFailsMerge ==
    corruptAtMerge => (~mergeWrote /\ pc \notin {"merge_ids", "done"})

\* C6: whatever batches fail in a run, the run attempts every batch, performs
\* the merge and ends without a fatal error.
C6_BatchFailuresNotFatal ==
    (failed # {} /\ pc \in {"done", "crashed"}) =>
        /\ pc = "done"
        /\ skipped \cup failed \cup succeeded = AllBatches

\* C7: a batch that failed in the previous run, at whatever step, is not
\* skipped by the next run.
C7_FailedBatchRetried ==
    prevFailed \cap skipped = {}

\* C8: after an abort every batch completed before it has both artifacts and the
\* batch in flight has neither; the restarted run does not skip the batch that
\* was in flight.
C8_Cancellation ==
    /\ pc = "aborted" =>
          /\ \A b \in everSucceeded : npy[b].st = "ok" /\ csv[b].st = "ok"
          /\ inflight # -1 => (~Exists(npy[inflight]) /\ ~Exists(csv[inflight]))
    /\ (pc # "aborted" /\ inflight # -1) => inflight \notin skipped

RECURSIVE SumOver(_, _)
\* Sum of f[x] over the finite set S.
SumOver(f, S) ==
    IF S = {} THEN 0
    ELSE LET x == CHOOSE y \in S : TRUE IN f[x] + SumOver(f, S \ {x})

\* C9: the pipeline iterates over exactly ceil(N/B) batch indices, batch b covers
\* exactly the files at positions [b*B, (b+1)*B) (each position in exactly one
\* batch, each batch of at most B files), and the rows of all successfully
\* written batch feature artifacts sum to the number of files in the successful
\* batches.
C9_Partitioning ==
    LET N == Len(photos_files)
        B == batch_size
    IN  /\ batches * B >= N
        /\ (N > 0) => ((batches - 1) * B < N)
        /\ (N = 0) => (batches = 0)
        /\ \A b \in AllBatches :
              /\ Len(batch_files(b)) <= B
              /\ \A k \in 1 .. Len(batch_files(b)) :
                    batch_files(b)[k] = photos_files[b * B + k]
        /\ \A p \in 1 .. N :
              \E b \in AllBatches :
                 /\ b * B < p /\ p <= b * B + Len(batch_files(b))
                 /\ \A c \in AllBatches \ {b} :
                       ~(c * B < p /\ p <= c * B + Len(batch_files(c)))
        /\ LoopOver => (skipped \cup failed \cup succeeded = AllBatches)
        /\ LoopOver =>
              SumOver([b \in BatchIdx |-> Len(npy[b].rows)],
                      {b \in BatchIdx : npy[b].st = "ok"})
                = SumOver([b \in BatchIdx |-> Len(batch_files(b))], everSucceeded)

\* The loaded index pairs every row with an identifier.
IndexAligned == Len(photo_ids) = Len(photo_features)

\* The query read last was non-empty and the loop body has run for it.
Answered == search_query \in Queries /\ spc \in {"prompt", "index_error"}

\* The row whose identifier was printed at position k.
PrintedRow(k) == printed[k].path_of

Sim(r) == Dot(compute_text_feature(search_query), photo_features[r])

\* C10: for a non-empty query against a corpus of at least display_num rows the
\* search prints exactly display_num identifiers: those of the display_num
\* rows of highest dot-product similarity to the query vector, in descending
\* order of similarity.
C10_TopK ==
    (Answered /\ IndexAligned
       /\ Len(photo_features) >= display_num) =>
        /\ spc = "prompt"
        /\ Len(printed) = display_num
        /\ \A k \in 1 .. Len(printed) :
              /\ PrintedRow(k) \in 1 .. Len(photo_features)
              /\ printed[k] = photo_ids[PrintedRow(k)]
        /\ \A k, l \in 1 .. Len(printed) :
              /\ (k # l) => (PrintedRow(k) # PrintedRow(l))
              /\ (k < l) => (Sim(PrintedRow(k)) >= Sim(PrintedRow(l)))
        /\ \A r \in 1 .. Len(photo_features) :
              (\A k \in 1 .. Len(printed) : PrintedRow(k) # r) =>
                  \A k \in 1 .. Len(printed) : Sim(r) <= Sim(PrintedRow(k))

\* The corpus [1,0], [0,1], [0.7,0.7] was asked for [1,0] with display_num 3:
\* item 1, then item 3, then item 2 were printed.
C10_Witness ==
    /\ Answered
    /\ spc = "prompt"
    /\ photo_features = << <<10, 0>>, <<0, 10>>, <<7, 7>> >>
    /\ IndexAligned
    /\ display_num = 3
    /\ search_query = 1
    /\ printed = << resolve(1), resolve(3), resolve(2) >>

\* C11: in the ranking of a query any two rows of equal similarity appear in
\* ascending order of their row index; with the descending order of similarity
\* this fixes the ranking of all rows, so the same index and query vector give
\* the same ranking.
C11_StableTieBreak ==
    Answered =>
        /\ Len(best_photos) = Len(photo_features)
        /\ \A r \in 1 .. Len(photo_features) :
              \E k \in 1 .. Len(best_photos) :
                 best_photos[k] = <<Sim(r), r - 1>>
        /\ \A k, l \in 1 .. Len(best_photos) :
              (k < l) =>
                 \/ best_photos[k][1] > best_photos[l][1]
                 \/ /\ best_photos[k][1] = best_photos[l][1]
                    /\ best_photos[k][2] < best_photos[l][2]

\* A query was answered whose ranking holds two rows of equal similarity next
\* to a row of another similarity.
C11_Witness ==
    /\ Answered
    /\ spc = "prompt"
    /\ Len(best_photos) = 3
    /\ \E k \in 1 .. 2 : best_photos[k][1] = best_photos[k + 1][1]
    /\ \E k \in 1 .. 2 : best_photos[k][1] # best_photos[k + 1][1]

\* C12: when display_num is greater than the corpus size a query returns the
\* identifiers of the whole corpus in ranked order and raises no error.
C12_DisplayBeyondCorpus ==
    (Answered /\ IndexAligned /\ Len(photo_features) >= 1
       /\ display_num > Len(photo_features)) =>
        /\ spc = "prompt"
        /\ Len(printed) = Len(photo_features)

\* The consolidated index on disk lacks an artifact or has zero rows.
IndexMissingOrEmpty ==
    \/ features_npy.st # "ok"
    \/ photo_ids_csv.st # "ok"
    \/ Len(features_npy.rows) = 0

\* C13: a session whose consolidated index is missing or empty fails before the
\* interactive loop begins: no prompt is ever shown for such an index.
C13_NoPromptWithoutIndex ==
    IndexMissingOrEmpty => spc \in {"start", "load_error"}

\* The search process has ended, by the empty line or by an uncaught exception.
SessionEnded == spc \in {"exited", "load_error", "encoder_error", "index_error"}

\* The encoder raised for the query read last.
EncoderFailed == search_query \in Queries /\ spc = "encoder_error"

\* C14: an encoder failure during a query fails only that query: the session
\* stays in the interactive loop and prompts for the next query.
C14_EncoderFailureKeepsSession ==
    (EncoderFailed /\ Len(photo_features) >= 1) => (~SessionEnded /\ spc = "prompt")

\* C15: an empty line ends the loop without an error and without running a
\* search; the loop ends on no other line; after every non-empty line that is
\* answered the session prompts again.
C15_ExitOnlyOnEmptyLine ==
    [][ (spc = "prompt") =>
          /\ (search_query' = 0) =>
                (spc' = "exited" /\ printed' = printed /\ best_photos' = best_photos)
          /\ (spc' = "exited") => (search_query' = 0)
          /\ (search_query' \in Queries
                /\ spc' \notin {"encoder_error", "index_error"}) => (spc' = "prompt")
      ]_vars

\* A query was answered and then the empty line ended the session.
C15_Witness ==
    /\ spc = "exited"
    /\ search_query = 0
    /\ printed # <<>>

\* C16: answering queries leaves the loaded feature matrix and identifier list
\* as they were loaded, and the ranking and the identifiers printed for the
\* query answered last are those of the loaded index and that query alone.
C16_SearchIsReadOnly ==
    (spc \in {"prompt", "exited", "encoder_error", "index_error"}) =>
        /\ photo_features = features_npy.rows
        /\ photo_ids = photo_ids_csv.rows
        /\ Answered =>
              /\ best_photos =
                    Ranking(Similarities(compute_text_feature(search_query),
                                         features_npy.rows))
              /\ printed = PrintLoop(best_photos, photo_ids_csv.rows, 0, <<>>).out

\* A query was answered over an index of at least two rows and the session is
\* back at the prompt.
C16_Witness ==
    /\ Answered
    /\ spc = "prompt"
    /\ Len(photo_features) >= 2
    /\ IndexAligned
    /\ Len(printed) >= 2

RECURSIVE RowsOfBatches(_, _)
\* The feature rows of the artifacts of the batches in S, in batch order.
RowsOfBatches(S, b) ==
    IF b > MaxFiles - 1 THEN <<>>
    ELSE (IF b \in S THEN npy[b].rows ELSE <<>>) \o RowsOfBatches(S, b + 1)

NoDuplicate(seq) == \A k, l \in 1 .. Len(seq) : (k # l) => (seq[k] # seq[l])

\* C17: the file list the pipeline partitions holds each image file at most
\* once, also when a file matches more than one pattern of ext_list, so no file
\* is embedded in two rows of the batch artifacts written by one run.
C17_FileListDeduplicated ==
    (pc # "idle") =>
        /\ NoDuplicate(photos_files)
        /\ NoDuplicate(RowsOfBatches(succeeded, 0))

\* C18: after runs in which no batch failed, with files appended to the end of
\* the enumerated list between them, every file enumerated by the latest run
\* has its identifier in the consolidated identifier sequence.
C18_AppendedFilesIndexed ==
    (/\ ext_list = <<"*.*">>
     /\ pc = "done"
     /\ failed = {}
     /\ run = 1 \/ (run = 2 /\ prevAllOk)) =>
        /\ photo_ids_csv.st = "ok"
        /\ \A k \in 1 .. Len(photos_files) :
              \E r \in 1 .. Len(photo_ids_csv.rows) :
                 photo_ids_csv.rows[r] = resolve(photos_files[k])

====
